---- MODULE Spec2Model ----
(***************************************************************************)
(* Model of the consorcio quota analyzers:                                 *)
(*   analyze_optimal_cotas.py  (draw resolver, catchment, gaps)            *)
(*   analisar_pontas.py        (edge opportunities)                        *)
(*   analisar_sequencias.py    (consecutive sequences)                     *)
(* The state is the data one run of a script holds: the total read from    *)
(* the command line / configuration, the two id sets read from the group's *)
(* files, the sets derived from them, and the last analyzer call with its  *)
(* return value.                                                           *)
(***************************************************************************)
EXTENDS Integers, Sequences, FiniteSets

VARIABLES
    pc,            \* position of the run: "loaded", "main", "pontas", "sequencias", "crashed"
    total_cotas,   \* total_cotas / data['total_quotas']
    contempladas,  \* contempladas / data['contemplated']
    disponiveis,   \* disponiveis / data['available']
    active,        \* active (main) / data['active'] (load_group_data)
    occupied,      \* data['occupied'] (analisar_pontas.load_group_data)
    error,         \* the exception that ended the run, "none" while it runs
    call,          \* the last analyzer call: its name and arguments
    ret,           \* what that call returned
    quotas_input,  \* the list handed to find_consecutive_sequences
    analyzed_gaps, \* main: analyzed_gaps
    idx,           \* main: iterations done of the loop over sorted(buyable_cotas)
    temp_active,   \* main: temp_active of the last iteration
    catchments,    \* main: catchments, its items in insertion order
    draws_map,     \* main: draws_map, its items in insertion order
    resolutions,   \* main: calls of find_selected_cota made so far
    top_10         \* main: top_10

\* the variables only analyze_optimal_cotas.main writes
mainvars == <<analyzed_gaps, idx, temp_active, catchments, draws_map, resolutions, top_10>>

vars == <<pc, total_cotas, contempladas, disponiveis, active, occupied, error, call, ret,
          quotas_input, mainvars>>

\* Largest total_cotas the inputs are drawn from.
MaxTotal == 5

\* Python's None, returned by find_selected_cota when no offset succeeds.
\* Quota ids read by the loaders are never negative (str.isdigit).
None == -1

\* range(a, b) as a set
Range(a, b) == {x \in a..(b - 1) : TRUE}

Min(a, b) == IF a <= b THEN a ELSE b

\* sorted(S): the members of a set of integers in ascending order
RECURSIVE sorted(_)
sorted(S) ==
    IF S = {} THEN <<>>
    ELSE LET m == CHOOSE x \in S : \A y \in S : x <= y
         IN  <<m>> \o sorted(S \ {m})

SeqToSet(s) == {s[i] : i \in 1..Len(s)}

(***************************************************************************)
(* analyze_optimal_cotas.py                                                *)
(***************************************************************************)

\* Mutant of get_active_cotas: the available quotas stay in the result.
get_active_cotas_keep_available(total, contempl, disp) ==
    Range(1, total + 1) \ contempl

\* get_active_cotas: all - contempladas - disponiveis
get_active_cotas(total, contempl, disp) ==
    LET all_cotas == Range(1, total + 1)
    IN  (all_cotas \ contempl) \ disp

\* The offset loop of find_selected_cota, from `offset` on:
\* for offset in range(1, max_cota): below first, then above.
RECURSIVE search_from(_, _, _, _)
search_from(offset, initial_draw, active_cotas, max_cota) ==
    IF offset >= max_cota THEN None
    ELSE LET below == initial_draw - offset
             above == initial_draw + offset
         IN  IF below >= 1 /\ below \in active_cotas THEN below
             ELSE IF above <= max_cota /\ above \in active_cotas THEN above
             ELSE search_from(offset + 1, initial_draw, active_cotas, max_cota)

\* Mutant of the resolver: tests above before below at each offset.
RECURSIVE search_from_above_first(_, _, _, _)
search_from_above_first(offset, initial_draw, active_cotas, max_cota) ==
    IF offset >= max_cota THEN None
    ELSE LET below == initial_draw - offset
             above == initial_draw + offset
         IN  IF above <= max_cota /\ above \in active_cotas THEN above
             ELSE IF below >= 1 /\ below \in active_cotas THEN below
             ELSE search_from_above_first(offset + 1, initial_draw, active_cotas, max_cota)

find_selected_cota_above_first(initial_draw, active_cotas, max_cota) ==
    IF initial_draw \in active_cotas THEN initial_draw
    ELSE search_from_above_first(1, initial_draw, active_cotas, max_cota)

\* Mutant of the resolver: the offset loop stops one offset early.
RECURSIVE search_from_short(_, _, _, _)
search_from_short(offset, initial_draw, active_cotas, max_cota) ==
    IF offset >= max_cota - 1 THEN None
    ELSE LET below == initial_draw - offset
             above == initial_draw + offset
         IN  IF below >= 1 /\ below \in active_cotas THEN below
             ELSE IF above <= max_cota /\ above \in active_cotas THEN above
             ELSE search_from_short(offset + 1, initial_draw, active_cotas, max_cota)

find_selected_cota_short(initial_draw, active_cotas, max_cota) ==
    IF initial_draw \in active_cotas THEN initial_draw
    ELSE search_from_short(1, initial_draw, active_cotas, max_cota)

\* Mutant of find_selected_cota: the whole side below the draw is searched
\* before the side above it.
find_selected_cota_below_all(initial_draw, active_cotas, max_cota) ==
    LET below == {q \in active_cotas : q <= initial_draw /\ q >= 1}
        above == {q \in active_cotas : q > initial_draw /\ q <= max_cota}
    IN  IF below # {} THEN CHOOSE q \in below : \A r \in below : r <= q
        ELSE IF above # {} THEN CHOOSE q \in above : \A r \in above : q <= r
        ELSE None

\* find_selected_cota
find_selected_cota(initial_draw, active_cotas, max_cota) ==
    IF initial_draw \in active_cotas THEN initial_draw
    ELSE search_from(1, initial_draw, active_cotas, max_cota)

\* The draw loop of calculate_catchment, from `draw` on:
\* for draw in range(1, max_cota + 1): append the draws that select cota.
RECURSIVE catchment_draws(_, _, _, _)
catchment_draws(draw, cota, active_cotas, max_cota) ==
    IF draw >= max_cota + 1 THEN <<>>
    ELSE (IF find_selected_cota(draw, active_cotas, max_cota) = cota
          THEN <<draw>> ELSE <<>>)
         \o catchment_draws(draw + 1, cota, active_cotas, max_cota)

\* Mutant of calculate_catchment: the draw loop misses the last draw
\* (range(1, max_cota)).
RECURSIVE catchment_draws_short(_, _, _, _)
catchment_draws_short(draw, cota, active_cotas, max_cota) ==
    IF draw >= max_cota THEN <<>>
    ELSE (IF find_selected_cota(draw, active_cotas, max_cota) = cota
          THEN <<draw>> ELSE <<>>)
         \o catchment_draws_short(draw + 1, cota, active_cotas, max_cota)

calculate_catchment_short(cota, active_cotas, max_cota) ==
    IF cota \notin active_cotas THEN <<0, <<>>>>
    ELSE LET draws == catchment_draws_short(1, cota, active_cotas, max_cota)
         IN  <<Len(draws), draws>>

\* Mutant of calculate_catchment: the draw loop starts at draw 0
\* (range(0, max_cota + 1)).
calculate_catchment_from_zero(cota, active_cotas, max_cota) ==
    IF cota \notin active_cotas THEN <<0, <<>>>>
    ELSE LET draws == catchment_draws(0, cota, active_cotas, max_cota)
         IN  <<Len(draws), draws>>

\* Mutant of calculate_catchment: the draw equal to the quota is left out.
calculate_catchment_without_self(cota, active_cotas, max_cota) ==
    IF cota \notin active_cotas THEN <<0, <<>>>>
    ELSE LET draws == sorted(SeqToSet(catchment_draws(1, cota, active_cotas, max_cota))
                             \ {cota})
         IN  <<Len(draws), draws>>

\* calculate_catchment: (count, draws)
calculate_catchment(cota, active_cotas, max_cota) ==
    IF cota \notin active_cotas THEN <<0, <<>>>>
    ELSE LET draws == catchment_draws(1, cota, active_cotas, max_cota)
         IN  <<Len(draws), draws>>

\* The pair loop of find_gaps, from index i on (1-based):
\* for i in range(len(sorted_active) - 1): the span between
\* sorted_active[i] and sorted_active[i + 1], when it is not empty.
RECURSIVE gaps_from(_, _, _, _)
gaps_from(i, sorted_active, contempl, disp) ==
    IF i >= Len(sorted_active) THEN <<>>
    ELSE LET gap_start == sorted_active[i] + 1
             gap_end == sorted_active[i + 1] - 1
             num_contempladas == Cardinality({c \in Range(gap_start, gap_end + 1) : c \in contempl})
             num_disponiveis == Cardinality({c \in Range(gap_start, gap_end + 1) : c \in disp})
         IN  (IF gap_end >= gap_start
              THEN << <<gap_start, gap_end, gap_end - gap_start + 1,
                        num_contempladas, num_disponiveis>> >>
              ELSE <<>>)
             \o gaps_from(i + 1, sorted_active, contempl, disp)

\* Mutant of find_gaps: the gap runs up to and including the upper boundary
\* (gap_end = sorted_active[i + 1]).
RECURSIVE gaps_from_incl(_, _, _, _)
gaps_from_incl(i, sorted_active, contempl, disp) ==
    IF i >= Len(sorted_active) THEN <<>>
    ELSE LET gap_start == sorted_active[i] + 1
             gap_end == sorted_active[i + 1]
             num_contempladas == Cardinality({c \in Range(gap_start, gap_end + 1) : c \in contempl})
             num_disponiveis == Cardinality({c \in Range(gap_start, gap_end + 1) : c \in disp})
         IN  (IF gap_end >= gap_start
              THEN << <<gap_start, gap_end, gap_end - gap_start + 1,
                        num_contempladas, num_disponiveis>> >>
              ELSE <<>>)
             \o gaps_from_incl(i + 1, sorted_active, contempl, disp)

find_gaps_incl(active_cotas, contempl, disp) ==
    gaps_from_incl(1, sorted(active_cotas), contempl, disp)

\* Mutant of find_gaps: a gap of a single quota is dropped
\* (gap_end > gap_start).
RECURSIVE gaps_from_strict(_, _, _, _)
gaps_from_strict(i, sorted_active, contempl, disp) ==
    IF i >= Len(sorted_active) THEN <<>>
    ELSE LET gap_start == sorted_active[i] + 1
             gap_end == sorted_active[i + 1] - 1
             num_contempladas == Cardinality({c \in Range(gap_start, gap_end + 1) : c \in contempl})
             num_disponiveis == Cardinality({c \in Range(gap_start, gap_end + 1) : c \in disp})
         IN  (IF gap_end > gap_start
              THEN << <<gap_start, gap_end, gap_end - gap_start + 1,
                        num_contempladas, num_disponiveis>> >>
              ELSE <<>>)
             \o gaps_from_strict(i + 1, sorted_active, contempl, disp)

find_gaps_strict(active_cotas, contempl, disp) ==
    gaps_from_strict(1, sorted(active_cotas), contempl, disp)

\* find_gaps: list of (start, end, size, num_contempladas, num_disponiveis)
find_gaps(active_cotas, contempl, disp) ==
    gaps_from(1, sorted(active_cotas), contempl, disp)

\* The analysis loop of main over all_gaps, from index i on: one record
\* per gap with its boundaries and the buyable quotas inside it.
analyzed_gap(gap, disp, active_cotas) ==
    [start            |-> gap[1],
     end              |-> gap[2],
     size             |-> gap[3],
     num_contempladas |-> gap[4],
     num_disponiveis  |-> gap[5],
     lower_boundary   |-> gap[1] - 1,
     upper_boundary   |-> gap[2] + 1,
     lower_buyable    |-> (gap[1] - 1) \in disp,
     upper_buyable    |-> (gap[2] + 1) \in disp,
     lower_active     |-> (gap[1] - 1) \in active_cotas,
     upper_active     |-> (gap[2] + 1) \in active_cotas,
     buyable_in_gap   |-> sorted({c \in Range(gap[1], gap[2] + 1) : c \in disp})]

analyze_gaps(all_gaps, disp, active_cotas) ==
    [i \in 1..Len(all_gaps) |-> analyzed_gap(all_gaps[i], disp, active_cotas)]

\* The gap strategy main prints for best_gap = analyzed_gaps[0]: which
\* branch of the if / elif chain is taken.
gap_recommendation(gaps) ==
    IF gaps = <<>> THEN "none"
    ELSE LET best_gap == gaps[1]
         IN  IF best_gap.lower_buyable /\ best_gap.upper_buyable THEN "buy_both"
             ELSE IF best_gap.lower_buyable THEN "buy_lower"
             ELSE IF best_gap.upper_buyable THEN "buy_upper"
             ELSE IF Len(best_gap.buyable_in_gap) > 0 THEN "buy_inside"
             ELSE "none"

\* the sort key (size, num_contempladas): a's key is smaller than b's
GapKeyLess(a, b) ==
    \/ a.size < b.size
    \/ a.size = b.size /\ a.num_contempladas < b.num_contempladas

\* Mutant of the gap sort: the key is the size alone.
RECURSIVE insert_gap_by_size(_, _)
insert_gap_by_size(s, x) ==
    IF s = <<>> THEN <<x>>
    ELSE IF Head(s).size < x.size THEN <<x>> \o s
    ELSE <<Head(s)>> \o insert_gap_by_size(Tail(s), x)

\* analyzed_gaps.sort(key=(size, num_contempladas), reverse=True): a stable
\* sort, so gaps of equal key keep the order in which they were appended.
RECURSIVE insert_gap(_, _)
insert_gap(s, x) ==
    IF s = <<>> THEN <<x>>
    ELSE IF GapKeyLess(Head(s), x) THEN <<x>> \o s
    ELSE <<Head(s)>> \o insert_gap(Tail(s), x)

RECURSIVE sort_gaps(_)
sort_gaps(s) ==
    IF s = <<>> THEN <<>>
    ELSE insert_gap(sort_gaps(SubSeq(s, 1, Len(s) - 1)), s[Len(s)])

\* Mutant of the simulated purchase: the quota is added to active in place.
simulate_buying_in_place(active_cotas, cota) ==
    [active |-> active_cotas \cup {cota}, temp_active |-> active_cotas \cup {cota}]

\* temp_active = active | {cota}: a new set, active is left as it was
simulate_buying(active_cotas, cota) ==
    [active |-> active_cotas, temp_active |-> active_cotas \cup {cota}]

\* Mutant of the ranking: an entry is placed before the entries of equal
\* count.
RECURSIVE insert_by_count_unstable(_, _)
insert_by_count_unstable(s, x) ==
    IF s = <<>> THEN <<x>>
    ELSE IF Head(s)[2] <= x[2] THEN <<x>> \o s
    ELSE <<Head(s)>> \o insert_by_count_unstable(Tail(s), x)

\* sorted(catchments.items(), key=count, reverse=True): a stable sort of
\* the (cota, count) items in insertion order.
RECURSIVE insert_by_count(_, _)
insert_by_count(s, x) ==
    IF s = <<>> THEN <<x>>
    ELSE IF Head(s)[2] < x[2] THEN <<x>> \o s
    ELSE <<Head(s)>> \o insert_by_count(Tail(s), x)

RECURSIVE sort_by_count(_)
sort_by_count(s) ==
    IF s = <<>> THEN <<>>
    ELSE insert_by_count(sort_by_count(SubSeq(s, 1, Len(s) - 1)), s[Len(s)])

\* the slice [:10]
TopN == 10

(***************************************************************************)
(* analisar_pontas.py                                                      *)
(***************************************************************************)

\* load_group_data (analisar_pontas.py): the derived sets
\* active = all - contemplated, occupied = contemplated | (active - available)
load_group_data(total_quotas, contemplated, available) ==
    LET all_quotas == Range(1, total_quotas + 1)
        act == all_quotas \ contemplated
    IN  [total_quotas |-> total_quotas,
         contemplated |-> contemplated,
         active       |-> act,
         available    |-> available,
         occupied     |-> contemplated \cup (act \ available)]

\* Upper limit of the length loop: min(51, ...)
LengthStop == 51

\* A fraction n/d with d > 0 is the pair <<n, d>>. occupied_pct and score
\* are Python floats; for the interval lengths of this model (at most 7)
\* the floats computed by the code are ordered, and equal, exactly as the
\* fractions are.
FracLess(a, b) == a[1] * b[2] < b[1] * a[2]

\* Mutant of the candidate test: the threshold comparison is strict
\* (occupied_pct <= min_occupied_pct is skipped).
edge_candidate_strict(data, start, length, min_occupied_pct) ==
    LET end == start + length - 1
        middle == Range(start + 1, end)
        middle_occupied == middle \cap data.occupied
        middle_available == middle \cap data.available
        occupied_pct == <<Cardinality(middle_occupied), Cardinality(middle)>>
    IN  IF middle = {} THEN <<>>
        ELSE IF start \notin data.available \/ end \notin data.available
        THEN <<>>
        ELSE IF ~FracLess(min_occupied_pct, occupied_pct) THEN <<>>
        ELSE << [start |-> start,
                 end |-> end,
                 length |-> length,
                 middle_occupied |-> Cardinality(middle_occupied),
                 middle_available |-> Cardinality(middle_available),
                 middle_total |-> Cardinality(middle),
                 occupied_pct |-> occupied_pct,
                 score |-> <<length * occupied_pct[1] * 100, occupied_pct[2]>>,
                 middle_occupied_list |-> sorted(middle_occupied),
                 middle_available_list |-> sorted(middle_available)] >>

\* The body of the two loops of find_edge_opportunities for one
\* (start, length): the list of the records appended (none or one).
edge_candidate(data, start, length, min_occupied_pct) ==
    LET end == start + length - 1
        left_edge == start
        right_edge == end
        middle == Range(start + 1, end)
        middle_occupied == middle \cap data.occupied
        middle_available == middle \cap data.available
        occupied_pct == <<Cardinality(middle_occupied), Cardinality(middle)>>
    IN  IF middle = {} THEN <<>>
        ELSE IF left_edge \notin data.available \/ right_edge \notin data.available
        THEN <<>>
        ELSE IF FracLess(occupied_pct, min_occupied_pct) THEN <<>>
        ELSE << [start |-> left_edge,
                 end |-> right_edge,
                 length |-> length,
                 middle_occupied |-> Cardinality(middle_occupied),
                 middle_available |-> Cardinality(middle_available),
                 middle_total |-> Cardinality(middle),
                 occupied_pct |-> occupied_pct,
                 score |-> <<length * occupied_pct[1] * 100, occupied_pct[2]>>,
                 middle_occupied_list |-> sorted(middle_occupied),
                 middle_available_list |-> sorted(middle_available)] >>

\* Mutant of the length loop: no cap on the length, the loop runs to the
\* end of the pool.
RECURSIVE edge_lengths_uncapped(_, _, _, _)
edge_lengths_uncapped(data, start, length, min_occupied_pct) ==
    IF length >= data.total_quotas - start + 2 THEN <<>>
    ELSE edge_candidate(data, start, length, min_occupied_pct)
         \o edge_lengths_uncapped(data, start, length + 1, min_occupied_pct)

\* for length in range(min_length, min(51, total_quotas - start + 2)),
\* from `length` on
RECURSIVE edge_lengths(_, _, _, _)
edge_lengths(data, start, length, min_occupied_pct) ==
    IF length >= Min(LengthStop, data.total_quotas - start + 2) THEN <<>>
    ELSE edge_candidate(data, start, length, min_occupied_pct)
         \o edge_lengths(data, start, length + 1, min_occupied_pct)

\* for start in range(1, total_quotas - min_length + 2), from `start` on
RECURSIVE edge_starts(_, _, _, _)
edge_starts(data, start, min_length, min_occupied_pct) ==
    IF start >= data.total_quotas - min_length + 2 THEN <<>>
    ELSE edge_lengths(data, start, min_length, min_occupied_pct)
         \o edge_starts(data, start + 1, min_length, min_occupied_pct)

\* Mutant of the score sort: a record goes before the records of equal
\* score already placed (an unstable sort).
RECURSIVE insert_by_score_unstable(_, _)
insert_by_score_unstable(s, x) ==
    IF s = <<>> THEN <<x>>
    ELSE IF ~FracLess(x.score, Head(s).score) THEN <<x>> \o s
    ELSE <<Head(s)>> \o insert_by_score_unstable(Tail(s), x)

\* opportunities.sort(key=score, reverse=True): a stable sort, so records
\* of equal score keep the order in which they were appended.
RECURSIVE insert_by_score(_, _)
insert_by_score(s, x) ==
    IF s = <<>> THEN <<x>>
    ELSE IF FracLess(Head(s).score, x.score) THEN <<x>> \o s
    ELSE <<Head(s)>> \o insert_by_score(Tail(s), x)

\* Mutant of the score sort: the list is left in the order it was built.
sort_by_score_unsorted(s) == s

RECURSIVE sort_by_score(_)
sort_by_score(s) ==
    IF s = <<>> THEN <<>>
    ELSE insert_by_score(sort_by_score(SubSeq(s, 1, Len(s) - 1)), s[Len(s)])

\* find_edge_opportunities
find_edge_opportunities(data, min_length, min_occupied_pct) ==
    sort_by_score(edge_starts(data, 1, min_length, min_occupied_pct))

(***************************************************************************)
(* analisar_sequencias.py                                                  *)
(***************************************************************************)

\* the record find_consecutive_sequences appends for a finished run
sequence_record(current_seq) ==
    [quotas |-> current_seq,
     start  |-> current_seq[1],
     end    |-> current_seq[Len(current_seq)],
     length |-> Len(current_seq)]

\* Mutant of the scan: the run still open when the input ends is dropped.
RECURSIVE scan_sequences_no_tail(_, _, _, _)
scan_sequences_no_tail(i, sorted_quotas, current_seq, sequences) ==
    IF i > Len(sorted_quotas)
    THEN sequences
    ELSE LET prev == sorted_quotas[i - 1]
             curr == sorted_quotas[i]
         IN  IF curr = prev + 1
             THEN scan_sequences_no_tail(i + 1, sorted_quotas,
                                         Append(current_seq, curr), sequences)
             ELSE scan_sequences_no_tail(i + 1, sorted_quotas, <<curr>>,
                      IF Len(current_seq) >= 2
                      THEN Append(sequences, sequence_record(current_seq))
                      ELSE sequences)

\* for i in range(1, len(sorted_quotas)), from index i on (1-based), and
\* the closing of the last run after the loop
RECURSIVE scan_sequences(_, _, _, _)
scan_sequences(i, sorted_quotas, current_seq, sequences) ==
    IF i > Len(sorted_quotas)
    THEN IF Len(current_seq) >= 2
         THEN Append(sequences, sequence_record(current_seq))
         ELSE sequences
    ELSE LET prev == sorted_quotas[i - 1]
             curr == sorted_quotas[i]
         IN  IF curr = prev + 1
             THEN scan_sequences(i + 1, sorted_quotas, Append(current_seq, curr), sequences)
             ELSE scan_sequences(i + 1, sorted_quotas, <<curr>>,
                      IF Len(current_seq) >= 2
                      THEN Append(sequences, sequence_record(current_seq))
                      ELSE sequences)

\* Mutant of the sort key: (-length, -start), the later run first among
\* runs of equal length.
SequenceBefore_later_first(a, b) ==
    \/ a.length > b.length
    \/ a.length = b.length /\ a.start > b.start

\* the sort key (-length, start): a sorts strictly before b
SequenceBefore(a, b) ==
    \/ a.length > b.length
    \/ a.length = b.length /\ a.start < b.start

\* sequences.sort(key=lambda s: (-s['length'], s['start'])), a stable sort
RECURSIVE insert_sequence(_, _)
insert_sequence(s, x) ==
    IF s = <<>> THEN <<x>>
    ELSE IF SequenceBefore(x, Head(s)) THEN <<x>> \o s
    ELSE <<Head(s)>> \o insert_sequence(Tail(s), x)

RECURSIVE sort_sequences(_)
sort_sequences(s) ==
    IF s = <<>> THEN <<>>
    ELSE insert_sequence(sort_sequences(SubSeq(s, 1, Len(s) - 1)), s[Len(s)])

\* find_consecutive_sequences
find_consecutive_sequences(quotas_list) ==
    IF quotas_list = <<>> THEN <<>>
    ELSE LET sorted_quotas == sorted(SeqToSet(quotas_list))
         IN  sort_sequences(
                 scan_sequences(2, sorted_quotas, <<sorted_quotas[1]>>, <<>>))

\* load_group_data (analisar_sequencias.py): active = all - contemplated
load_group_data_seq(total_quotas, contemplated, available) ==
    LET all_quotas == Range(1, total_quotas + 1)
    IN  [total_quotas |-> total_quotas,
         contemplated |-> contemplated,
         active       |-> all_quotas \ contemplated,
         available    |-> available]

Reverse(s) == [i \in 1..Len(s) |-> s[Len(s) + 1 - i]]

\* list(S): the members of a set in an order the language does not fix;
\* the model draws it from the ascending and the descending order.
list_orders(S) == {sorted(S), Reverse(sorted(S))}

\* analyze_consecutive_sequences, up to the list it reports: nothing when
\* no active quota is available, else the runs of available | contemplated
analyze_consecutive_sequences(data, available_quotas) ==
    LET available_active == data.active \cap data.available
    IN  IF Cardinality(available_active) = 0 THEN <<>>
        ELSE find_consecutive_sequences(available_quotas)

(***************************************************************************)
(* The run. A run loads the group's data, derives the sets of its script   *)
(* and calls one analyzer on them; the analyzers are pure functions, so a  *)
(* further call would see the same data.                                   *)
(***************************************************************************)

NoCall == [op |-> "none"]

\* main before its first statement: nothing analyzed, nothing simulated
MainInit ==
    /\ analyzed_gaps = <<>>
    /\ idx = 0
    /\ temp_active = {}
    /\ catchments = <<>>
    /\ draws_map = <<>>
    /\ resolutions = 0
    /\ top_10 = <<>>

\* The data a script has read: the total and the two id files. The files
\* hold any non-negative ids; the model draws them from 1..total+1, so an
\* id past the end and an id in both files are among the inputs.
Init ==
    /\ pc = "loaded"
    /\ total_cotas \in 0..MaxTotal
    /\ contempladas \in SUBSET (1..(total_cotas + 1))
    /\ disponiveis \in SUBSET (1..(total_cotas + 1))
    /\ active = {}
    /\ occupied = {}
    /\ error = "none"
    /\ call = NoCall
    /\ ret = None
    /\ quotas_input = <<>>
    /\ MainInit

\* analyze_optimal_cotas.main: active = get_active_cotas(...), then the
\* statistics block, whose percentages divide by total_cotas.
MainGetActive ==
    /\ pc = "loaded"
    /\ active' = get_active_cotas(total_cotas, contempladas, disponiveis)
    /\ IF total_cotas = 0
       THEN pc' = "crashed" /\ error' = "ZeroDivisionError"
       ELSE pc' = "main" /\ error' = error
    /\ UNCHANGED <<total_cotas, contempladas, disponiveis, occupied, call, ret>>
    /\ UNCHANGED <<quotas_input, mainvars>>

\* find_selected_cota(draw, active, total_cotas) for a draw of 1..total_cotas
FindSelectedCota ==
    /\ pc = "main"
    /\ call = NoCall
    /\ \E draw \in 1..total_cotas :
         /\ call' = [op |-> "find_selected_cota", draw |-> draw]
         /\ ret' = find_selected_cota(draw, active, total_cotas)
    /\ UNCHANGED <<pc, total_cotas, contempladas, disponiveis, active, occupied, error>>
    /\ UNCHANGED <<quotas_input, mainvars>>

\* calculate_catchment(cota, active, total_cotas) for any quota of the pool
CalculateCatchment ==
    /\ pc = "main"
    /\ call = NoCall
    /\ \E cota \in 1..total_cotas :
         /\ call' = [op |-> "calculate_catchment", cota |-> cota]
         /\ ret' = calculate_catchment(cota, active, total_cotas)
    /\ UNCHANGED <<pc, total_cotas, contempladas, disponiveis, active, occupied, error>>
    /\ UNCHANGED <<quotas_input, mainvars>>

\* find_gaps(active, contempladas, disponiveis)
FindGaps ==
    /\ pc = "main"
    /\ call = NoCall
    /\ call' = [op |-> "find_gaps"]
    /\ ret' = find_gaps(active, contempladas, disponiveis)
    /\ UNCHANGED <<pc, total_cotas, contempladas, disponiveis, active, occupied, error>>
    /\ UNCHANGED <<quotas_input, mainvars>>

\* analisar_pontas: data = load_group_data(grupo)
PontasLoadGroupData ==
    /\ pc = "loaded"
    /\ LET data == load_group_data(total_cotas, contempladas, disponiveis)
       IN  active' = data.active /\ occupied' = data.occupied
    /\ pc' = "pontas"
    /\ UNCHANGED <<total_cotas, contempladas, disponiveis, error, call, ret>>
    /\ UNCHANGED <<quotas_input, mainvars>>

\* min_length and min_occupied_pct as given on the command line
MinLengthChoices == {1, 3, 5}
MinOccupiedChoices == {<<1, 2>>, <<1, 1>>, <<3, 2>>}

\* find_edge_opportunities(data, min_length, min_occupied_pct)
FindEdgeOpportunities ==
    /\ pc = "pontas"
    /\ call = NoCall
    /\ \E min_length \in MinLengthChoices, min_occupied_pct \in MinOccupiedChoices :
         /\ call' = [op |-> "find_edge_opportunities",
                     min_length |-> min_length,
                     min_occupied_pct |-> min_occupied_pct]
         /\ ret' = find_edge_opportunities(
                       [total_quotas |-> total_cotas,
                        contemplated |-> contempladas,
                        active       |-> active,
                        available    |-> disponiveis,
                        occupied     |-> occupied],
                       min_length, min_occupied_pct)
    /\ UNCHANGED <<pc, total_cotas, contempladas, disponiveis, active, occupied, error>>
    /\ UNCHANGED <<quotas_input, mainvars>>

\* analisar_sequencias: data = load_group_data(grupo)
SequenciasLoadGroupData ==
    /\ pc = "loaded"
    /\ active' = load_group_data_seq(total_cotas, contempladas, disponiveis).active
    /\ pc' = "sequencias"
    /\ UNCHANGED <<total_cotas, contempladas, disponiveis, occupied, error, call, ret>>
    /\ UNCHANGED <<quotas_input, mainvars>>

\* analyze_consecutive_sequences: the runs it reports
AnalyzeConsecutiveSequences ==
    /\ pc = "sequencias"
    /\ call = NoCall
    /\ \E available_quotas \in list_orders(disponiveis \cup contempladas) :
         /\ call' = [op |-> "analyze_consecutive_sequences"]
         /\ ret' = analyze_consecutive_sequences(
                       [total_quotas |-> total_cotas,
                        contemplated |-> contempladas,
                        active       |-> active,
                        available    |-> disponiveis],
                       available_quotas)
    /\ UNCHANGED <<pc, total_cotas, contempladas, disponiveis, active, occupied, error>>
    /\ UNCHANGED <<quotas_input, mainvars>>

Next ==
    \/ MainGetActive
    \/ FindSelectedCota
    \/ CalculateCatchment
    \/ FindGaps
    \/ PontasLoadGroupData
    \/ FindEdgeOpportunities
    \/ SequenciasLoadGroupData
    \/ AnalyzeConsecutiveSequences

Spec == Init /\ [][Next]_vars

(***************************************************************************)
(* find_consecutive_sequences on arbitrary lists                           *)
(***************************************************************************)

\* Largest id and greatest length of the lists handed to the run finder.
MaxRunId == 6
MaxRunLen == 5

\* The list of the usage text of analisar_sequencias.main.
ExampleQuotas == <<1, 2, 6, 7, 8, 12, 13, 14, 34, 35, 36, 39>>

\* the lists of ids, in any order and with duplicates, of length <= n
ListsUpTo(n) == UNION {[1..k -> 1..MaxRunId] : k \in 0..n}

InitRuns ==
    /\ pc = "runs"
    /\ total_cotas = 0
    /\ contempladas = {}
    /\ disponiveis = {}
    /\ active = {}
    /\ occupied = {}
    /\ error = "none"
    /\ call = NoCall
    /\ ret = None
    /\ quotas_input \in ListsUpTo(MaxRunLen) \cup {ExampleQuotas}
    /\ MainInit

\* find_consecutive_sequences(quotas_list)
FindConsecutiveSequences ==
    /\ pc = "runs"
    /\ call = NoCall
    /\ call' = [op |-> "find_consecutive_sequences"]
    /\ ret' = find_consecutive_sequences(quotas_input)
    /\ UNCHANGED <<pc, total_cotas, contempladas, disponiveis, active, occupied, error>>
    /\ UNCHANGED <<quotas_input, mainvars>>

NextRuns == FindConsecutiveSequences

SpecRuns == InitRuns /\ [][NextRuns]_vars

(***************************************************************************)
(* main of analyze_optimal_cotas, step by step                             *)
(***************************************************************************)

\* all_gaps = find_gaps(...), the analysis loop and the sort
MainAnalyzeGaps ==
    /\ pc = "main"
    /\ call = NoCall
    /\ analyzed_gaps' = sort_gaps(analyze_gaps(find_gaps(active, contempladas, disponiveis),
                                               disponiveis, active))
    /\ pc' = "gaps"
    /\ UNCHANGED <<total_cotas, contempladas, disponiveis, active, occupied, error, call, ret>>
    /\ UNCHANGED <<quotas_input, idx, temp_active, catchments, draws_map, resolutions, top_10>>

\* One iteration of for i, cota in enumerate(sorted(buyable_cotas)):
\* calculate_catchment resolves every draw of 1..total_cotas once.
MainWhatIf ==
    /\ pc = "gaps"
    /\ idx < Len(sorted(disponiveis))
    /\ LET cota == sorted(disponiveis)[idx + 1]
           sim == simulate_buying(active, cota)
           res == calculate_catchment(cota, sim.temp_active, total_cotas)
       IN  /\ active' = sim.active
           /\ temp_active' = sim.temp_active
           /\ catchments' = Append(catchments, <<cota, res[1]>>)
           /\ draws_map' = Append(draws_map, <<cota, res[2]>>)
           /\ resolutions' = resolutions + total_cotas
    /\ idx' = idx + 1
    /\ UNCHANGED <<pc, total_cotas, contempladas, disponiveis, occupied, error, call, ret>>
    /\ UNCHANGED <<quotas_input, analyzed_gaps, top_10>>

\* top_10 = sorted(catchments.items(), key=count, reverse=True)[:10]
MainRank ==
    /\ pc = "gaps"
    /\ idx = Len(sorted(disponiveis))
    /\ top_10' = SubSeq(sort_by_count(catchments), 1, Min(TopN, Len(catchments)))
    /\ pc' = "ranked"
    /\ UNCHANGED <<total_cotas, contempladas, disponiveis, active, occupied, error, call, ret>>
    /\ UNCHANGED <<quotas_input, analyzed_gaps, idx, temp_active, catchments, draws_map, resolutions>>

NextMain ==
    \/ MainGetActive
    \/ MainAnalyzeGaps
    \/ MainWhatIf
    \/ MainRank

SpecMain == Init /\ [][NextMain]_vars

(***************************************************************************)
(* The outer enumeration split across two workers                          *)
(***************************************************************************)

\* the data record find_edge_opportunities receives
PontasData ==
    [total_quotas |-> total_cotas,
     contemplated |-> contempladas,
     active       |-> active,
     available    |-> disponiveis,
     occupied     |-> occupied]

\* The partial lists of two workers concatenated in completion order:
\* `first` is the worker that completes first.
merge_concat(part_a, part_b, first) ==
    IF first = 1 THEN part_a \o part_b ELSE part_b \o part_a

\* EdgeOpportunityFinder with the starts below `split` on worker 1 and the
\* starts from `split` on with worker 2 (each worker has a start), merged
\* and sorted by score.
merge_edge_opportunities(data, min_length, min_occupied_pct, split, first) ==
    LET all == edge_starts(data, 1, min_length, min_occupied_pct)
        part_b == edge_starts(data, split, min_length, min_occupied_pct)
        part_a == SubSeq(all, 1, Len(all) - Len(part_b))
    IN  sort_by_score(merge_concat(part_a, part_b, first))

\* GapFinder with the pairs below `split` on worker 1 and the pairs from
\* `split` on with worker 2 (each worker has a pair), merged and sorted by
\* (size, num_contempladas).
merge_gaps(active_cotas, contempl, disp, split, first) ==
    LET sorted_active == sorted(active_cotas)
        part_a == gaps_from(1, SubSeq(sorted_active, 1, split), contempl, disp)
        part_b == gaps_from(split, sorted_active, contempl, disp)
    IN  sort_gaps(analyze_gaps(merge_concat(part_a, part_b, first), disp, active_cotas))

MergeEdgeOpportunities ==
    /\ pc = "pontas"
    /\ call = NoCall
    /\ \E min_length \in {n \in MinLengthChoices : n >= 2},
          min_occupied_pct \in {q \in MinOccupiedChoices : q[1] <= q[2]} :
       \E split \in 2..(total_cotas - min_length + 1), first \in {1, 2} :
         /\ call' = [op |-> "merge_edge_opportunities",
                     min_length |-> min_length,
                     min_occupied_pct |-> min_occupied_pct,
                     split |-> split, first |-> first]
         /\ ret' = merge_edge_opportunities(PontasData, min_length, min_occupied_pct,
                                            split, first)
    /\ UNCHANGED <<pc, total_cotas, contempladas, disponiveis, active, occupied, error>>
    /\ UNCHANGED <<quotas_input, mainvars>>

MergeGaps ==
    /\ pc = "main"
    /\ call = NoCall
    /\ \E split \in 2..(Cardinality(active) - 1), first \in {1, 2} :
         /\ call' = [op |-> "merge_gaps", split |-> split, first |-> first]
         /\ ret' = merge_gaps(active, contempladas, disponiveis, split, first)
    /\ UNCHANGED <<pc, total_cotas, contempladas, disponiveis, active, occupied, error>>
    /\ UNCHANGED <<quotas_input, mainvars>>

NextMerge ==
    \/ MainGetActive
    \/ PontasLoadGroupData
    \/ MergeEdgeOpportunities
    \/ MergeGaps

SpecMerge == Init /\ [][NextMerge]_vars

(***************************************************************************)
(* find_edge_opportunities on pools longer than the length cap             *)
(***************************************************************************)

\* Largest pool of the runs that reach the length cap.
MaxSpanTotal == 52

\* the ids that may be available in these pools: the two lowest and those
\* from the cap on
ProbeIds(total) == {1, 2} \cup ((LengthStop - 1)..total)

InitSpan ==
    /\ pc = "loaded"
    /\ total_cotas \in (LengthStop - 1)..MaxSpanTotal
    /\ contempladas \in {{}, 3..(LengthStop - 3)}
    /\ disponiveis \in SUBSET ProbeIds(total_cotas)
    /\ active = {}
    /\ occupied = {}
    /\ error = "none"
    /\ call = NoCall
    /\ ret = None
    /\ quotas_input = <<>>
    /\ MainInit

NextSpan ==
    \/ PontasLoadGroupData
    \/ FindEdgeOpportunities

SpecSpan == InitSpan /\ [][NextSpan]_vars

(***************************************************************************)
(* Properties of the draw resolver and of the catchment                    *)
(***************************************************************************)

\* x is an eligible quota of the range 1..maxId
EligibleAt(x, eligible, maxId) == x >= 1 /\ x <= maxId /\ x \in eligible

\* k is the smallest offset >= 1 at which draw-k or draw+k is eligible
FirstOffset(k, draw, eligible, maxId) ==
    /\ EligibleAt(draw - k, eligible, maxId) \/ EligibleAt(draw + k, eligible, maxId)
    /\ \A j \in 1..(k - 1) :
         /\ ~EligibleAt(draw - j, eligible, maxId)
         /\ ~EligibleAt(draw + j, eligible, maxId)

\* both sides are eligible at the first offset that has an eligible quota
TieAt(k, draw, eligible, maxId) ==
    /\ FirstOffset(k, draw, eligible, maxId)
    /\ EligibleAt(draw - k, eligible, maxId)
    /\ EligibleAt(draw + k, eligible, maxId)

\* C1: below-first tie-break. When the draw is not eligible and, at the
\* smallest offset k with an eligible quota, both draw-k and draw+k are
\* eligible, find_selected_cota returns draw-k.
C1_BelowFirst ==
    (call.op = "find_selected_cota" /\ call.draw \notin active) =>
        \A k \in 1..total_cotas :
            TieAt(k, call.draw, active, total_cotas) => ret = call.draw - k

C1_Witness ==
    /\ call.op = "find_selected_cota"
    /\ call.draw \notin active
    /\ \E k \in 1..total_cotas :
         TieAt(k, call.draw, active, total_cotas) /\ ret = call.draw - k

\* C2: resolver totality. For eligible within 1..maxId and a draw of
\* 1..maxId, find_selected_cota returns None exactly when eligible is empty.
C2_Totality ==
    call.op = "find_selected_cota" => ((ret = None) <=> (active = {}))

\* the only eligible quota is reached at the last offset, maxId-1
C2_Witness ==
    /\ call.op = "find_selected_cota"
    /\ total_cotas >= 3
    /\ ret # None
    /\ active = {ret}
    /\ (ret - call.draw = total_cotas - 1 \/ call.draw - ret = total_cotas - 1)

\* the draws of 1..maxId that resolve to some quota
ResolvingDraws(eligible, maxId) ==
    {d \in 1..maxId : find_selected_cota(d, eligible, maxId) # None}

\* sum over the quotas of S of the count calculate_catchment returns
RECURSIVE CatchmentSum(_, _, _)
CatchmentSum(S, eligible, maxId) ==
    IF S = {} THEN 0
    ELSE LET q == CHOOSE x \in S : TRUE
         IN  calculate_catchment(q, eligible, maxId)[1]
             + CatchmentSum(S \ {q}, eligible, maxId)

\* C3: catchment conservation. The counts of all eligible quotas add up to
\* the number of draws that resolve to some quota; so the sum is <= maxId,
\* with equality exactly when every draw resolves.
C3_Conservation ==
    pc = "main" =>
        LET sum == CatchmentSum(active, active, total_cotas)
        IN  /\ sum = Cardinality(ResolvingDraws(active, total_cotas))
            /\ sum <= total_cotas
            /\ (sum = total_cotas) <=>
                 (\A d \in 1..total_cotas :
                     find_selected_cota(d, active, total_cotas) # None)

\* a catchment of several draws in a universe of several eligible quotas
C3_Witness ==
    /\ call.op = "calculate_catchment"
    /\ call.cota \in active
    /\ Cardinality(active) >= 2
    /\ ret[1] >= 2
    /\ CatchmentSum(active, active, total_cotas) = total_cotas

StrictlyAscending(s) == \A i \in 1..(Len(s) - 1) : s[i] < s[i + 1]

\* C4: catchment result. For an eligible quota the draws returned are
\* exactly the draws of 1..maxId that resolve to it, in strictly ascending
\* order, and count is their number; for any other quota the result is
\* (0, empty list).
C4_CatchmentResult ==
    call.op = "calculate_catchment" =>
        IF call.cota \in active
        THEN LET won == {d \in 1..total_cotas :
                           find_selected_cota(d, active, total_cotas) = call.cota}
             IN  /\ SeqToSet(ret[2]) = won
                 /\ StrictlyAscending(ret[2])
                 /\ ret[1] = Cardinality(won)
        ELSE ret = <<0, <<>>>>

C4_Witness ==
    /\ call.op = "calculate_catchment"
    /\ call.cota \in active
    /\ ret[1] >= 3
    /\ ret[2][1] < call.cota
    /\ ret[2][ret[1]] > call.cota

(***************************************************************************)
(* Properties of find_gaps                                                 *)
(***************************************************************************)

\* the quotas of a gap tuple
GapMembers(g) == g[1]..g[2]

\* the quotas that lie in some gap of the list
GapUnion(gaps) == UNION {GapMembers(gaps[i]) : i \in 1..Len(gaps)}

GapsDisjoint(gaps, eligible) ==
    /\ \A i, j \in 1..Len(gaps) :
         i # j => GapMembers(gaps[i]) \cap GapMembers(gaps[j]) = {}
    /\ GapUnion(gaps) \cap eligible = {}

SetMin(S) == CHOOSE x \in S : \A y \in S : x <= y
SetMax(S) == CHOOSE x \in S : \A y \in S : x >= y

\* The statement of C5 as written: gaps and eligible quotas together cover
\* 1..total, each quota exactly once.
C5_CoversWholeRange ==
    call.op = "find_gaps" =>
        /\ GapsDisjoint(ret, active)
        /\ GapUnion(ret) \cup active = 1..total_cotas

\* C5 (amended): the gaps and the eligible quotas together cover the range
\* from the smallest to the largest eligible quota, each quota exactly
\* once; the quotas below the smallest and above the largest eligible quota
\* are in no gap, and without eligible quotas there is no gap.
C5_CoversEligibleSpan ==
    call.op = "find_gaps" =>
        /\ GapsDisjoint(ret, active)
        /\ GapUnion(ret) \cup active =
             (IF active = {} THEN {} ELSE SetMin(active)..SetMax(active))

\* a gap exists while quotas below the smallest eligible quota and above
\* the largest one are left outside
C5_Witness ==
    /\ call.op = "find_gaps"
    /\ Len(ret) >= 1
    /\ active # {}
    /\ SetMin(active) > 1
    /\ SetMax(active) < total_cotas

\* the pairs of successive eligible quotas that are not adjacent
OpenPairs(eligible) ==
    {p \in eligible \X eligible :
        /\ p[2] > p[1] + 1
        /\ \A x \in eligible : ~(p[1] < x /\ x < p[2])}

\* C6: gap segmentation. find_gaps emits exactly one gap [a+1, b-1] for
\* each pair (a, b) of successive eligible quotas with b > a+1, in ascending
\* order, and nothing else; a gap holds no eligible quota, its size is
\* end - start + 1 >= 1 and its two counts are the numbers of its members in
\* contempladas and in disponiveis; there is no gap with fewer than two
\* eligible quotas or with all eligible quotas adjacent.
C6_Segmentation ==
    call.op = "find_gaps" =>
        /\ {<<ret[i][1], ret[i][2]>> : i \in 1..Len(ret)}
             = {<<p[1] + 1, p[2] - 1>> : p \in OpenPairs(active)}
        /\ Len(ret) = Cardinality(OpenPairs(active))
        /\ \A i \in 1..(Len(ret) - 1) : ret[i][2] < ret[i + 1][1]
        /\ \A i \in 1..Len(ret) :
             /\ GapMembers(ret[i]) \cap active = {}
             /\ ret[i][3] = ret[i][2] - ret[i][1] + 1
             /\ ret[i][3] >= 1
             /\ ret[i][4] = Cardinality(GapMembers(ret[i]) \cap contempladas)
             /\ ret[i][5] = Cardinality(GapMembers(ret[i]) \cap disponiveis)
        /\ (Cardinality(active) < 2
             \/ \A a \in active : a = SetMax(active) \/ a + 1 \in active)
            => ret = <<>>

\* one gap holding a contemplated and an available quota, next to a pair of
\* adjacent eligible quotas that yields no gap
C6_Witness ==
    /\ call.op = "find_gaps"
    /\ Len(ret) = 1
    /\ Cardinality(active) >= 3
    /\ ret[1][4] >= 1
    /\ ret[1][5] >= 1

(***************************************************************************)
(* Properties of the buying strategies                                     *)
(***************************************************************************)

\* the loaded data is a partition input: total >= 1, the two files are
\* disjoint and hold only ids of 1..total
InputsValid ==
    /\ total_cotas >= 1
    /\ contempladas \cap disponiveis = {}
    /\ contempladas \cup disponiveis \subseteq 1..total_cotas

\* the eligible set after the quotas of `bought` are purchased
AfterPurchase(bought) ==
    get_active_cotas(total_cotas, contempladas, disponiveis) \cup bought

\* C7: cheap-coverage guarantee. For every opportunity [start, end] whose
\* interior is fully occupied, once start and end are purchased every draw
\* of start..end resolves to start or to end.
C7_CheapCoverage ==
    (call.op = "find_edge_opportunities" /\ InputsValid) =>
        \A i \in 1..Len(ret) :
            ret[i].middle_occupied = ret[i].middle_total =>
                \A d \in ret[i].start..ret[i].end :
                    find_selected_cota(d, AfterPurchase({ret[i].start, ret[i].end}),
                                       total_cotas)
                        \in {ret[i].start, ret[i].end}

\* C8: blocking-strategy guarantee. For every run reported by
\* analyze_consecutive_sequences, once the available quotas of the run are
\* purchased every draw landing on a quota of the run resolves to one of
\* the purchased quotas of that run.
C8_Blocking ==
    (call.op = "analyze_consecutive_sequences" /\ InputsValid) =>
        \A i \in 1..Len(ret) :
            LET run == SeqToSet(ret[i].quotas)
                bought == run \cap disponiveis
            IN  \A d \in run :
                    find_selected_cota(d, AfterPurchase(bought), total_cotas)
                        \in bought

(***************************************************************************)
(* Properties of the universe construction                                 *)
(***************************************************************************)

\* C9: fail-closed construction. When the loaded sets violate the
\* partition invariant, building the universe ends in an InvalidUniverse
\* error and no analyzer runs on the data. No script defines an
\* InvalidUniverse error, so the formula counts any exception that ends
\* the run as the rejection.
C9_FailClosed ==
    ~InputsValid =>
        /\ pc # "loaded" => error # "none"
        /\ call.op = "none"

\* C10: partition completeness. For every universe main constructs,
\* contemplated, ownedActive and available are pairwise disjoint and their
\* union is 1..total.
C10_Partition ==
    pc = "main" =>
        /\ contempladas \cup active \cup disponiveis = 1..total_cotas
        /\ contempladas \cap active = {}
        /\ contempladas \cap disponiveis = {}
        /\ active \cap disponiveis = {}

(***************************************************************************)
(* Properties of find_edge_opportunities                                   *)
(***************************************************************************)

\* the documented configuration ranges: min_length >= 2 and
\* 0 <= min_occupied_pct <= 1
ConfigValid(min_length, min_occupied_pct) ==
    /\ min_length >= 2
    /\ min_occupied_pct[1] >= 0
    /\ min_occupied_pct[1] <= min_occupied_pct[2]

\* C11: configuration rejection. A call of the opportunity search with
\* min_occupied_pct outside [0, 1] or min_length < 2 ends in an error
\* instead of returning a result list.
C11_ConfigRejected ==
    (call.op = "find_edge_opportunities"
        /\ ~ConfigValid(call.min_length, call.min_occupied_pct))
    => error # "none"

\* the (start, length) pairs the two loops enumerate
Candidates(total, min_length) ==
    {c \in (1..total) \X (min_length..LengthStop) :
        /\ c[1] < total - min_length + 2
        /\ c[2] < Min(LengthStop, total - c[1] + 2)}

\* the emission rule for the candidate (start, length)
MustEmit(start, length, min_occupied_pct) ==
    LET end == start + length - 1
        interior == (start + 1)..(end - 1)
    IN  /\ interior # {}
        /\ start \in disponiveis
        /\ end \in disponiveis
        /\ Cardinality(interior \cap occupied) * min_occupied_pct[2]
             >= min_occupied_pct[1] * Cardinality(interior)

\* C12: emission rule. Within the enumeration ranges a record is emitted
\* for [start, end] exactly when the interior is not empty, both endpoints
\* are available and |interior & occupied| / |interior| >=
\* min_occupied_pct, the comparison being inclusive; each such interval is
\* emitted once.
C12_EmissionRule ==
    call.op = "find_edge_opportunities" =>
        /\ \A c \in Candidates(total_cotas, call.min_length) :
             MustEmit(c[1], c[2], call.min_occupied_pct)
               <=> (\E i \in 1..Len(ret) :
                       ret[i].start = c[1] /\ ret[i].length = c[2])
        /\ \A i \in 1..Len(ret) :
             /\ <<ret[i].start, ret[i].length>>
                  \in Candidates(total_cotas, call.min_length)
             /\ ret[i].end = ret[i].start + ret[i].length - 1
        /\ \A i, j \in 1..Len(ret) :
             (ret[i].start = ret[j].start /\ ret[i].length = ret[j].length)
               => i = j

\* an interval emitted exactly at the threshold (1 of 2 interior quotas
\* occupied at 0.5) next to one left out for an unavailable endpoint
C12_Witness ==
    /\ call.op = "find_edge_opportunities"
    /\ call.min_occupied_pct = <<1, 2>>
    /\ call.min_length = 3
    /\ \E i \in 1..Len(ret) :
         ret[i].middle_total = 2 /\ ret[i].middle_occupied = 1
    /\ Len(ret) < Cardinality(Candidates(total_cotas, call.min_length))

FracEq(a, b) == a[1] * b[2] = b[1] * a[2]

\* C13: ordering. The list is sorted by descending score, and records of
\* equal score are in generation order: ascending start, then ascending
\* length.
C13_Ordering ==
    call.op = "find_edge_opportunities" =>
        \A i, j \in 1..Len(ret) :
            i < j =>
                /\ ~FracLess(ret[i].score, ret[j].score)
                /\ FracEq(ret[i].score, ret[j].score) =>
                     \/ ret[i].start < ret[j].start
                     \/ ret[i].start = ret[j].start
                        /\ ret[i].length < ret[j].length

\* two records of equal score, and a record of higher score generated
\* after a record of lower score
C13_Witness ==
    /\ call.op = "find_edge_opportunities"
    /\ ConfigValid(call.min_length, call.min_occupied_pct)
    /\ \E i, j \in 1..Len(ret) :
         i < j /\ FracEq(ret[i].score, ret[j].score)
    /\ \E i, j \in 1..Len(ret) :
         /\ i < j
         /\ FracLess(ret[j].score, ret[i].score)
         /\ ret[i].start > ret[j].start

(***************************************************************************)
(* Properties of find_consecutive_sequences                                *)
(***************************************************************************)

\* the ids of the input that have a consecutive neighbour in the input
WithNeighbour(S) == {x \in S : x - 1 \in S \/ x + 1 \in S}

\* C15: run detection. For any list of ids the records returned are
\* exactly the maximal runs of length >= 2 of consecutive integers of the
\* input: end = start + length - 1, the members are start..end, all in the
\* input, start-1 and end+1 are not; an id with a consecutive neighbour is
\* in exactly one record, an isolated id in none, and an empty input gives
\* an empty result.
C15_RunDetection ==
    call.op = "find_consecutive_sequences" =>
        LET S == SeqToSet(quotas_input)
        IN  /\ \A i \in 1..Len(ret) :
                 /\ ret[i].length >= 2
                 /\ ret[i].length = Len(ret[i].quotas)
                 /\ ret[i].end = ret[i].start + ret[i].length - 1
                 /\ \A k \in 1..ret[i].length :
                      ret[i].quotas[k] = ret[i].start + k - 1
                 /\ SeqToSet(ret[i].quotas) \subseteq S
                 /\ ret[i].start - 1 \notin S
                 /\ ret[i].end + 1 \notin S
            /\ \A x \in WithNeighbour(S) :
                 Cardinality({i \in 1..Len(ret) : x \in SeqToSet(ret[i].quotas)}) = 1
            /\ \A x \in S \ WithNeighbour(S) :
                 \A i \in 1..Len(ret) : x \notin SeqToSet(ret[i].quotas)
            /\ quotas_input = <<>> => ret = <<>>

\* an unordered list with a duplicate, a run and an isolated id
C15_Witness ==
    /\ call.op = "find_consecutive_sequences"
    /\ Len(ret) = 1
    /\ Cardinality(SeqToSet(quotas_input)) < Len(quotas_input)
    /\ \E k \in 1..(Len(quotas_input) - 1) : quotas_input[k] > quotas_input[k + 1]
    /\ ret[1].length < Cardinality(SeqToSet(quotas_input))

\* C16: run ordering. The list is sorted by descending length and, among
\* runs of equal length, by ascending start; for the input
\* {1,2,6,7,8,12,13,14,34,35,36,39} the first three runs are [6,8],
\* [12,14], [34,36] in that order and 39 is in no run.
C16_RunOrdering ==
    call.op = "find_consecutive_sequences" =>
        /\ \A i, j \in 1..Len(ret) :
             i < j =>
                \/ ret[i].length > ret[j].length
                \/ ret[i].length = ret[j].length /\ ret[i].start < ret[j].start
        /\ quotas_input = ExampleQuotas =>
             /\ Len(ret) >= 3
             /\ <<ret[1].start, ret[1].end>> = <<6, 8>>
             /\ <<ret[2].start, ret[2].end>> = <<12, 14>>
             /\ <<ret[3].start, ret[3].end>> = <<34, 36>>
             /\ \A i \in 1..Len(ret) : 39 \notin SeqToSet(ret[i].quotas)

\* the example input: its run of length 2, found first, is reported last
C16_Witness ==
    /\ call.op = "find_consecutive_sequences"
    /\ quotas_input = ExampleQuotas
    /\ Len(ret) = 4
    /\ <<ret[4].start, ret[4].end>> = <<1, 2>>

(***************************************************************************)
(* Properties of main of analyze_optimal_cotas                             *)
(***************************************************************************)

\* the eligible set main derives from its inputs
BaseActive == get_active_cotas(total_cotas, contempladas, disponiveis)

\* the catchment count of c once c alone has been bought
WhatIfCount(c) ==
    Cardinality({d \in 1..total_cotas :
                    find_selected_cota(d, BaseActive \cup {c}, total_cotas) = c})

\* C14: best purchasable quota. The ranking of main lists the available
\* quotas by descending what-if count and, among equal counts, ascending
\* id; its first entry is an available quota whose count in
\* BaseActive + {c} is maximal over the available quotas and which has the
\* smallest id among those of maximal count.
C14_BestPurchasable ==
    pc = "ranked" =>
        /\ Len(top_10) = Min(TopN, Cardinality(disponiveis))
        /\ \A i \in 1..Len(top_10) :
             /\ top_10[i][1] \in disponiveis
             /\ top_10[i][2] = WhatIfCount(top_10[i][1])
        /\ \A i, j \in 1..Len(top_10) :
             i < j =>
                \/ top_10[i][2] > top_10[j][2]
                \/ top_10[i][2] = top_10[j][2] /\ top_10[i][1] < top_10[j][1]
        /\ disponiveis # {} =>
             /\ top_10 # <<>>
             /\ \A c \in disponiveis :
                  /\ WhatIfCount(c) <= top_10[1][2]
                  /\ WhatIfCount(c) = top_10[1][2] => top_10[1][1] <= c

\* a ranking with a tie at the top and a reordering: the best quota is not
\* the smallest available one, and another quota has the same count
C14_Witness ==
    /\ pc = "ranked"
    /\ Len(top_10) >= 3
    /\ top_10[1][2] = top_10[2][2]
    /\ \E c \in disponiveis : c < top_10[1][1]

\* C17: gap ranking. The analyzed gaps are the gaps of find_gaps, ordered
\* by descending size and, among gaps of equal size, by descending
\* contemplated count: for two consecutive entries g, h either
\* g.size > h.size, or g.size = h.size and
\* g.num_contempladas >= h.num_contempladas.
C17_GapRanking ==
    pc \in {"gaps", "ranked"} =>
        /\ {<<g[1], g[2], g[3], g[4], g[5]>> :
                g \in SeqToSet(find_gaps(BaseActive, contempladas, disponiveis))}
             = {<<analyzed_gaps[i].start, analyzed_gaps[i].end, analyzed_gaps[i].size,
                  analyzed_gaps[i].num_contempladas, analyzed_gaps[i].num_disponiveis>> :
                    i \in 1..Len(analyzed_gaps)}
        /\ Len(analyzed_gaps) = Len(find_gaps(BaseActive, contempladas, disponiveis))
        /\ \A i \in 1..(Len(analyzed_gaps) - 1) :
             LET g == analyzed_gaps[i]
                 h == analyzed_gaps[i + 1]
             IN  \/ g.size > h.size
                 \/ g.size = h.size /\ g.num_contempladas >= h.num_contempladas

\* two gaps of equal size, the one with more contemplated quotas found
\* later and ranked earlier
C17_Witness ==
    /\ pc = "gaps"
    /\ \E i, j \in 1..Len(analyzed_gaps) :
         /\ i < j
         /\ analyzed_gaps[i].size = analyzed_gaps[j].size
         /\ analyzed_gaps[i].num_contempladas > analyzed_gaps[j].num_contempladas
         /\ analyzed_gaps[i].start > analyzed_gaps[j].start

\* C18: what-if isolation. Through all simulated purchases of main the
\* eligible set stays the one derived from the inputs, the set used for
\* quota c is that set plus c alone, and the count and draws recorded for
\* each c are those of c in that set, whatever was simulated before.
C18_WhatIfIsolation ==
    pc \in {"main", "gaps", "ranked"} =>
        /\ active = BaseActive
        /\ idx > 0 => temp_active = BaseActive \cup {sorted(disponiveis)[idx]}
        /\ Len(catchments) = idx /\ Len(draws_map) = idx
        /\ \A k \in 1..idx :
             LET c == sorted(disponiveis)[k]
             IN  /\ catchments[k] = <<c, WhatIfCount(c)>>
                 /\ draws_map[k] =
                      <<c, calculate_catchment(c, BaseActive \cup {c}, total_cotas)[2]>>

\* a later what-if whose result would differ had the earlier purchases
\* stayed in the eligible set
C18_Witness ==
    /\ pc = "gaps"
    /\ idx >= 2
    /\ \E k \in 2..idx :
         LET c == sorted(disponiveis)[k]
             earlier == {sorted(disponiveis)[m] : m \in 1..(k - 1)}
         IN  calculate_catchment(c, BaseActive \cup earlier \cup {c}, total_cotas)[1]
                # catchments[k][2]

\* C20: single-pass catchment table. Once the table of all available
\* quotas is computed, the number of draw resolutions made for it is
\* total_cotas, whatever the number of quotas evaluated.
C20_SinglePass ==
    (pc = "ranked" /\ InputsValid /\ disponiveis # {}) => resolutions = total_cotas

(***************************************************************************)
(* Properties of the merge of worker results                               *)
(***************************************************************************)

\* the list of the sequential run of the operation that was merged
SequentialList ==
    IF call.op = "merge_edge_opportunities"
    THEN find_edge_opportunities(PontasData, call.min_length, call.min_occupied_pct)
    ELSE sort_gaps(analyze_gaps(find_gaps(active, contempladas, disponiveis),
                                disponiveis, active))

Merged == call.op \in {"merge_edge_opportunities", "merge_gaps"}

\* the sort key of a merged record
SameSortKey(a, b) ==
    IF call.op = "merge_edge_opportunities"
    THEN FracEq(a.score, b.score)
    ELSE a.size = b.size /\ a.num_contempladas = b.num_contempladas

\* a's sort key is smaller than b's
SortKeyLess(a, b) ==
    IF call.op = "merge_edge_opportunities"
    THEN FracLess(a.score, b.score)
    ELSE GapKeyLess(a, b)

C21_BoundariesNotBuyable ==
    pc \in {"gaps", "ranked"} =>
        /\ \A i \in 1..Len(analyzed_gaps) :
             LET g == analyzed_gaps[i]
             IN  /\ g.lower_boundary = g.start - 1
                 /\ g.upper_boundary = g.end + 1
                 /\ g.lower_boundary \in active
                 /\ g.upper_boundary \in active
                 /\ g.lower_boundary \notin disponiveis
                 /\ g.upper_boundary \notin disponiveis
                 /\ ~g.lower_buyable /\ ~g.upper_buyable
                 /\ g.lower_active /\ g.upper_active
        /\ gap_recommendation(analyzed_gaps)
             \notin {"buy_both", "buy_lower", "buy_upper"}

\* a partitioned universe whose best gap holds available quotas: only the
\* "buy inside the gap" strategy is printed
C21_Witness ==
    /\ pc = "gaps"
    /\ InputsValid
    /\ Len(analyzed_gaps) >= 2
    /\ gap_recommendation(analyzed_gaps) = "buy_inside"
    /\ \E c \in disponiveis : c + 1 \in active \/ c - 1 \in active

(***************************************************************************)
(* Bounds of the opportunity search                                        *)
(***************************************************************************)

\* the cap on the length of an interval
maxSpan == LengthStop - 1

\* the intervals (start, length) within the bounds of the search
WithinBounds(total, min_length) ==
    {c \in (1..total) \X (min_length..maxSpan) : c[1] + c[2] - 1 <= total}

\* C22: opportunity search bounds. Every record of find_edge_opportunities
\* has 1 <= start < end <= total, end = start + length - 1 and
\* min_length <= length <= maxSpan; every interval within those bounds is
\* considered: it is emitted when it meets the emission rule.
C22_SearchBounds ==
    call.op = "find_edge_opportunities" =>
        /\ \A i \in 1..Len(ret) :
             /\ 1 <= ret[i].start
             /\ ret[i].start < ret[i].end
             /\ ret[i].end <= total_cotas
             /\ ret[i].end = ret[i].start + ret[i].length - 1
             /\ call.min_length <= ret[i].length
             /\ ret[i].length <= maxSpan
        /\ \A c \in WithinBounds(total_cotas, call.min_length) :
             MustEmit(c[1], c[2], call.min_occupied_pct)
               => \E i \in 1..Len(ret) :
                      ret[i].start = c[1] /\ ret[i].length = c[2]

\* a pool longer than the cap: an interval of length maxSpan is emitted,
\* and two available quotas maxSpan apart have no record
C22_Witness ==
    /\ call.op = "find_edge_opportunities"
    /\ total_cotas > maxSpan
    /\ \E i \in 1..Len(ret) : ret[i].length = maxSpan
    /\ \E q \in disponiveis :
         /\ q + maxSpan \in disponiveis
         /\ q + maxSpan <= total_cotas
         /\ \A i \in 1..Len(ret) : ret[i].start = q => ret[i].end < q + maxSpan

(***************************************************************************)
(* Implicit properties of the resolver and of the catchment                *)
(***************************************************************************)

Distance(a, b) == IF a > b THEN a - b ELSE b - a

\* C23: nearest-eligible characterization. For eligible within 1..maxId
\* and a draw of 1..maxId, a result q other than None is an eligible quota
\* at minimal distance from the draw (the draw itself when it is
\* eligible), and the smaller one when two eligible quotas are at that
\* distance.
C23_NearestEligible ==
    (call.op = "find_selected_cota" /\ ret # None) =>
        /\ ret \in active
        /\ call.draw \in active => ret = call.draw
        /\ \A q \in active :
             /\ Distance(call.draw, ret) <= Distance(call.draw, q)
             /\ Distance(call.draw, ret) = Distance(call.draw, q) => ret <= q

\* the draw resolves upwards although a farther eligible quota lies below
C23_Witness ==
    /\ call.op = "find_selected_cota"
    /\ ret # None
    /\ ret > call.draw
    /\ \E q \in active :
         q < call.draw /\ Distance(call.draw, q) > Distance(call.draw, ret)

\* C24: catchment shape. For eligible within 1..maxId and an eligible
\* quota q, the draw list of calculate_catchment is a non-empty interval
\* first..last of consecutive integers with first <= q <= last, and count
\* is its length.
C24_CatchmentShape ==
    (call.op = "calculate_catchment" /\ call.cota \in active) =>
        LET draws == ret[2]
        IN  /\ ret[1] >= 1
            /\ ret[1] = Len(draws)
            /\ \A i \in 1..Len(draws) : draws[i] = draws[1] + i - 1
            /\ draws[1] <= call.cota
            /\ call.cota <= draws[Len(draws)]

\* a catchment of several draws on both sides of its quota, next to other
\* eligible quotas
C24_Witness ==
    /\ call.op = "calculate_catchment"
    /\ call.cota \in active
    /\ Cardinality(active) >= 2
    /\ Len(ret[2]) >= 3
    /\ ret[2][1] < call.cota
    /\ call.cota < ret[2][Len(ret[2])]

(***************************************************************************)
(* Consistency of the opportunity records                                  *)
(***************************************************************************)

\* C25: opportunity record consistency. For the data built by
\* load_group_data every record of find_edge_opportunities has
\* middle_total = length - 2, middle_occupied + middle_available =
\* middle_total, occupied_pct = middle_occupied / middle_total and
\* score = length * occupied_pct * 100.
C25_RecordConsistency ==
    call.op = "find_edge_opportunities" =>
        \A i \in 1..Len(ret) :
            /\ ret[i].middle_total = ret[i].length - 2
            /\ ret[i].middle_occupied + ret[i].middle_available = ret[i].middle_total
            /\ FracEq(ret[i].occupied_pct, <<ret[i].middle_occupied, ret[i].middle_total>>)
            /\ FracEq(ret[i].score,
                      <<ret[i].length * ret[i].middle_occupied * 100, ret[i].middle_total>>)
====
